---- MODULE Spec2Model ----
(***************************************************************************)
(* Week6/AuthLogScanner.py: the key=value log-line parser parse_log_line   *)
(* and the aggregation pass count_failed_logins.                           *)
(*                                                                         *)
(* A Python str is a sequence of one-character strings.  Positions (pos,   *)
(* next_space, m.end()) keep Python's 0-based values, so the character at  *)
(* Python index p of a string x is x[p + 1].                               *)
(***************************************************************************)
EXTENDS Integers, Sequences, FiniteSets, TLC

VARIABLES
    frame,      \* the running (or idle) invocation of parse_log_line: its arguments and locals
    pc,         \* position of the script: "idle", "for", "aborted", "done", "printed"
    lines,      \* count_failed_logins: the argument lines
    idx,        \* count_failed_logins: number of lines the for loop has consumed
    users_ctr,  \* Counter, as its (key, count) entries in insertion order
    ips_ctr,    \* Counter, as its (key, count) entries in insertion order
    seen,
    counted,
    skipped,
    stats,      \* the dict returned by count_failed_logins (line 185), or NoStats
    top_users,  \* stats['users'].most_common() as printed at line 188
    top_ips,    \* stats['ips'].most_common() as printed at line 189
    runs        \* the number of calls of count_failed_logins so far

vars == <<frame, pc, lines, idx, users_ctr, ips_ctr, seen, counted, skipped, stats,
          top_users, top_ips, runs>>

-----------------------------------------------------------------------------
(* Characters and the str methods the code uses *)

\* The ASCII members of the classes \d, [A-Za-z] and \s / str.isspace
Digits == {"0","1","2","3","4","5","6","7","8","9"}
UpperChars == <<"A","B","C","D","E","F","G","H","I","J","K","L","M","N","O","P","Q","R","S","T","U","V","W","X","Y","Z">>
LowerChars == <<"a","b","c","d","e","f","g","h","i","j","k","l","m","n","o","p","q","r","s","t","u","v","w","x","y","z">>
Letters == {UpperChars[n] : n \in DOMAIN UpperChars} \cup {LowerChars[n] : n \in DOMAIN LowerChars}
Whitespace == {" ", "\t", "\n", "\r", "\f"}

isspace(c) == c \in Whitespace

lower_char(c) ==
    IF \E n \in DOMAIN UpperChars : UpperChars[n] = c
    THEN LowerChars[CHOOSE n \in DOMAIN UpperChars : UpperChars[n] = c]
    ELSE c

upper_char(c) ==
    IF \E n \in DOMAIN LowerChars : LowerChars[n] = c
    THEN UpperChars[CHOOSE n \in DOMAIN LowerChars : LowerChars[n] = c]
    ELSE c

lower(x) == [n \in DOMAIN x |-> lower_char(x[n])]
upper(x) == [n \in DOMAIN x |-> upper_char(x[n])]

\* x[a:b] for 0 <= a, b (Python slice, clipped to the string)
Slice(x, a, b) == SubSeq(x, a + 1, IF b < Len(x) THEN b ELSE Len(x))

RECURSIVE rstrip_newline(_)
rstrip_newline(x) ==
    IF Len(x) > 0 /\ x[Len(x)] = "\n" THEN rstrip_newline(SubSeq(x, 1, Len(x) - 1)) ELSE x

RECURSIVE lstrip(_)
lstrip(x) ==
    IF Len(x) > 0 /\ isspace(x[1]) THEN lstrip(Tail(x)) ELSE x

RECURSIVE rstrip(_)
rstrip(x) ==
    IF Len(x) > 0 /\ isspace(x[Len(x)]) THEN rstrip(SubSeq(x, 1, Len(x) - 1)) ELSE x

strip(x) == lstrip(rstrip(x))

\* x.find(c, p): the lowest index >= p holding c, or -1
RECURSIVE find(_, _, _)
find(x, c, p) ==
    IF p >= Len(x) THEN -1
    ELSE IF x[p + 1] = c THEN p
    ELSE find(x, c, p + 1)

\* x.replace(a + b, c) for the two-character pattern a b: left to right, non-overlapping
RECURSIVE replace(_, _, _, _)
replace(x, a, b, c) ==
    IF Len(x) < 2 THEN x
    ELSE IF x[1] = a /\ x[2] = b THEN <<c>> \o replace(SubSeq(x, 3, Len(x)), a, b, c)
    ELSE <<x[1]>> \o replace(Tail(x), a, b, c)

-----------------------------------------------------------------------------
(* The two compiled patterns *)

TsWidth == 19

\* TIMESTAMP_RE with the time of day left out of the pattern: "^\d{4}-\d{2}-\d{2} "
TIMESTAMP_RE_DateOnly(t) ==
    /\ Len(t) >= 11
    /\ \A n \in {1,2,3,4, 6,7, 9,10} : t[n] \in Digits
    /\ t[5] = "-" /\ t[8] = "-" /\ t[11] = " "

\* TIMESTAMP_RE.match(t): ^\d{4}-\d{2}-\d{2} \d{2}:\d{2}:\d{2}$
\* ($ also matches before a final newline, which needs a 20th character.)
TIMESTAMP_RE(t) ==
    \/ /\ Len(t) = 19
       /\ \A n \in {1,2,3,4, 6,7, 9,10, 12,13, 15,16, 18,19} : t[n] \in Digits
       /\ t[5] = "-" /\ t[8] = "-" /\ t[11] = " " /\ t[14] = ":" /\ t[17] = ":"
    \/ /\ Len(t) = 20 /\ t[20] = "\n"
       /\ \A n \in {1,2,3,4, 6,7, 9,10, 12,13, 15,16, 18,19} : t[n] \in Digits
       /\ t[5] = "-" /\ t[8] = "-" /\ t[11] = " " /\ t[14] = ":" /\ t[17] = ":"

IsKeyStart(c) == c \in Letters \cup {"_"}
IsKeyChar(c) == c \in Letters \cup Digits \cup {"_", "-"}

\* [A-Za-z0-9_\-]* from index p: the index just past the longest run (greedy; the
\* "=" that must follow is no key character, so no shorter run can match)
RECURSIVE KeyRun(_, _)
KeyRun(x, p) ==
    IF p < Len(x) /\ IsKeyChar(x[p + 1]) THEN KeyRun(x, p + 1) ELSE p

\* (?:\\.|[^q])*q from index p, by the backtracking order of the engine: first
\* another iteration taking an escape pair (. is any character but newline),
\* then another iteration taking one non-quote character, then the closing
\* quote.  The index just past the closing quote, or -1.
RECURSIVE QuotedEnd(_, _, _)
QuotedEnd(x, q, p) ==
    LET esc == IF p + 1 < Len(x) /\ x[p + 1] = "\\" /\ x[p + 2] # "\n"
               THEN QuotedEnd(x, q, p + 2) ELSE -1
        one == IF p < Len(x) /\ x[p + 1] # q
               THEN QuotedEnd(x, q, p + 1) ELSE -1
    IN  IF esc # -1 THEN esc
        ELSE IF one # -1 THEN one
        ELSE IF p < Len(x) /\ x[p + 1] = q THEN p + 1
        ELSE -1

\* [^\s]+ from index p: the index just past the longest run of non-whitespace
RECURSIVE BareRun(_, _)
BareRun(x, p) ==
    IF p < Len(x) /\ ~isspace(x[p + 1]) THEN BareRun(x, p + 1) ELSE p

NoMatch == [matched |-> FALSE, key |-> <<>>, group |-> "", text |-> <<>>, end |-> 0]

\* TOKEN_RE.match(x, p): anchored at p.  group names the alternative that
\* matched ("dq", "sq" or "bare"), text is that group's text, end is m.end().
TOKEN_RE(x, p) ==
    IF ~(p < Len(x) /\ IsKeyStart(x[p + 1])) THEN NoMatch
    ELSE
    LET k == KeyRun(x, p + 1)
        v == k + 1
    IN  IF ~(k < Len(x) /\ x[k + 1] = "=") THEN NoMatch
        ELSE
        LET dq == IF v < Len(x) /\ x[v + 1] = "\"" THEN QuotedEnd(x, "\"", v + 1) ELSE -1
            sq == IF v < Len(x) /\ x[v + 1] = "'" THEN QuotedEnd(x, "'", v + 1) ELSE -1
            bare == BareRun(x, v)
        IN  IF dq # -1
            THEN [matched |-> TRUE, key |-> Slice(x, p, k), group |-> "dq",
                  text |-> Slice(x, v + 1, dq - 1), end |-> dq]
            ELSE IF sq # -1
            THEN [matched |-> TRUE, key |-> Slice(x, p, k), group |-> "sq",
                  text |-> Slice(x, v + 1, sq - 1), end |-> sq]
            ELSE IF bare > v
            THEN [matched |-> TRUE, key |-> Slice(x, p, k), group |-> "bare",
                  text |-> Slice(x, v, bare), end |-> bare]
            ELSE NoMatch

-----------------------------------------------------------------------------
(* Python values *)

K_timestamp == <<"t","i","m","e","s","t","a","m","p">>
K_status == <<"s","t","a","t","u","s">>
K_user == <<"u","s","e","r">>
K_ip == <<"i","p">>
S_FAIL == <<"F","A","I","L">>

\* A value held in the fields dict: None, a str, or a list of str.  v holds the
\* strings (none, one, or the list's elements in order).
PyNone == [t |-> "none", v |-> <<>>]
PyStr(x) == [t |-> "str", v |-> <<x>>]
PyList(l) == [t |-> "list", v |-> l]

\* A dict is a function from its keys; {} is the empty function.
EmptyDict == <<>>
Put(d, k, val) == [j \in DOMAIN d \cup {k} |-> IF j = k THEN val ELSE d[j]]
Get(d, k) == IF k \in DOMAIN d THEN d[k] ELSE PyNone

\* What parse_log_line hands back: nothing yet, None, or the fields dict.
RetUnset == [t |-> "unset", d |-> EmptyDict]
RetNone == [t |-> "None", d |-> EmptyDict]
RetDict(d) == [t |-> "dict", d |-> d]

\* A value passed as line: a str, None, another object whose str() is s, or an
\* object whose __str__ raises.
StrLine(x) == [t |-> "str", s |-> x]
NoneLine == [t |-> "None", s |-> <<>>]
IntLine(x) == [t |-> "int", s |-> x]
BadObjLine == [t |-> "badobj", s |-> <<>>]

DefaultOpts ==
    [normalize_keys |-> TRUE, collect_duplicates |-> TRUE,
     warn_on_junk |-> TRUE, allow_blank_timestamp |-> TRUE]

\* The options count_failed_logins parses with (line 128)
BulkOpts == [DefaultOpts EXCEPT !.warn_on_junk = FALSE]

Opts ==
    [normalize_keys : BOOLEAN, collect_duplicates : BOOLEAN,
     warn_on_junk : BOOLEAN, allow_blank_timestamp : BOOLEAN]

-----------------------------------------------------------------------------
(* parse_log_line, as the steps of one invocation.  A frame holds the    *)
(* arguments, the locals and the position: "idle" (no invocation),        *)
(* "while" (at the loop test, line 65), "has_kv" (past the loop, line 97), *)
(* "return" (returned, or left by an exception when raised is TRUE).       *)

IdleFrame ==
    [ppc |-> "idle", line |-> NoneLine, o |-> DefaultOpts, s |-> <<>>,
     ts_field |-> <<>>, rest |-> <<>>, fields |-> EmptyDict, pos |-> 0,
     length |-> 0, ret |-> RetUnset, warns |-> <<>>, raised |-> FALSE]

\* warnings.warn(...) under "if warn_on_junk": the diagnostic is recorded by
\* kind and control goes on (the default warning filter)
Warn(f, kind) ==
    IF f.o.warn_on_junk THEN [f EXCEPT !.warns = Append(@, kind)] ELSE f

Return(f, r) == [f EXCEPT !.ppc = "return", !.ret = r]

\* except Exception as e: warn if asked, return None
HandlerReraises(f) == [f EXCEPT !.ppc = "return", !.raised = TRUE]
Handler(f) == Return(Warn(f, "parser_error"), RetNone)

\* Enter with a line shorter than 19 characters taken as a line without a
\* timestamp, its tokens parsed from the first character
EnterShortParsed(line, o) ==
    LET f == [IdleFrame EXCEPT !.line = line, !.o = o]
    IN  IF line.t = "badobj" THEN Handler(f)
        ELSE
        LET text == IF line.t = "str" THEN line.s
                    ELSE IF line.t = "None" THEN <<>>
                    ELSE line.s
            s == rstrip_newline(text)
            g == [f EXCEPT !.s = s]
        IN  IF strip(s) = <<>> THEN Return(g, RetNone)
            ELSE IF Len(s) < TsWidth
            THEN [Warn(g, "short") EXCEPT
                      !.rest = lstrip(s), !.pos = 0, !.length = Len(lstrip(s)),
                      !.ppc = "while",
                      !.fields = Put(EmptyDict, K_timestamp, PyNone)]
            ELSE
            LET ts_field == Slice(s, 0, TsWidth)
                rest == lstrip(Slice(s, TsWidth, Len(s)))
                h == [g EXCEPT !.ts_field = ts_field, !.rest = rest,
                               !.pos = 0, !.length = Len(rest), !.ppc = "while"]
            IN  IF TIMESTAMP_RE(ts_field)
                THEN [h EXCEPT !.fields = Put(EmptyDict, K_timestamp, PyStr(ts_field))]
                ELSE IF o.allow_blank_timestamp /\ strip(ts_field) = <<>>
                THEN [Warn(h, "blank_timestamp") EXCEPT
                          !.fields = Put(EmptyDict, K_timestamp, PyNone)]
                ELSE Return(Warn(g, "invalid_timestamp"), RetNone)

\* lines 40-64: coercion, the blank and length tests, the timestamp region
Enter(line, o) ==
    LET f == [IdleFrame EXCEPT !.line = line, !.o = o]
    IN  IF line.t = "badobj" THEN Handler(f)
        ELSE
        LET text == IF line.t = "str" THEN line.s
                    ELSE IF line.t = "None" THEN <<>>
                    ELSE line.s
            s == rstrip_newline(text)
            g == [f EXCEPT !.s = s]
        IN  IF strip(s) = <<>> THEN Return(g, RetNone)
            ELSE IF Len(s) < TsWidth THEN Return(Warn(g, "short"), RetNone)
            ELSE
            LET ts_field == Slice(s, 0, TsWidth)
                rest == lstrip(Slice(s, TsWidth, Len(s)))
                h == [g EXCEPT !.ts_field = ts_field, !.rest = rest,
                               !.pos = 0, !.length = Len(rest), !.ppc = "while"]
            IN  IF TIMESTAMP_RE(ts_field)
                THEN [h EXCEPT !.fields = Put(EmptyDict, K_timestamp, PyStr(ts_field))]
                ELSE IF o.allow_blank_timestamp /\ strip(ts_field) = <<>>
                THEN [Warn(h, "blank_timestamp") EXCEPT
                          !.fields = Put(EmptyDict, K_timestamp, PyNone)]
                ELSE Return(Warn(g, "invalid_timestamp"), RetNone)

\* SkipSpaces that passes blanks only (rest[pos] == " " for rest[pos].isspace())
RECURSIVE SkipSpacesBlanksOnly(_, _)
SkipSpacesBlanksOnly(x, p) ==
    IF p < Len(x) /\ x[p + 1] = " " THEN SkipSpacesBlanksOnly(x, p + 1) ELSE p

\* while pos < length and rest[pos].isspace(): pos += 1
RECURSIVE SkipSpaces(_, _)
SkipSpaces(x, p) ==
    IF p < Len(x) /\ isspace(x[p + 1]) THEN SkipSpaces(x, p + 1) ELSE p

\* Decode with the escaped double quote left as written
DecodeKeepsEscapedQuote(m) ==
    IF m.group = "dq"
    THEN replace(replace(m.text, "\\", "n", "\n"), "\\", "t", "\t")
    ELSE IF m.group = "sq"
    THEN replace(replace(replace(m.text, "\\", "'", "'"), "\\", "n", "\n"), "\\", "t", "\t")
    ELSE m.text

\* lines 69-74: the value of a match
Decode(m) ==
    IF m.group = "dq"
    THEN replace(replace(replace(m.text, "\\", "\"", "\""), "\\", "n", "\n"), "\\", "t", "\t")
    ELSE IF m.group = "sq"
    THEN replace(replace(replace(m.text, "\\", "'", "'"), "\\", "n", "\n"), "\\", "t", "\t")
    ELSE m.text

\* lines 75-83: the duplicate policy
Insert(fields, key, val, collect_duplicates) ==
    IF collect_duplicates
    THEN IF key \in DOMAIN fields /\ key # K_timestamp
         THEN LET cur == IF fields[key].t # "list" THEN <<fields[key].v[1]>>
                         ELSE fields[key].v
              IN  Put(fields, key, PyList(Append(cur, val)))
         ELSE Put(fields, key, PyStr(val))
    ELSE IF key \in DOMAIN fields THEN fields ELSE Put(fields, key, PyStr(val))

\* SkipBadToken leaving the loop once it has warned
SkipBadTokenWarnStops(f) ==
    LET next_space == find(f.rest, " ", f.pos)
        bad_token == IF next_space = -1 THEN Slice(f.rest, f.pos, f.length)
                     ELSE Slice(f.rest, f.pos, next_space)
        g == IF bad_token # <<>> THEN Warn(f, "bad_token") ELSE f
    IN  IF next_space = -1 \/ g.warns # f.warns THEN [g EXCEPT !.ppc = "has_kv"]
        ELSE [g EXCEPT !.pos = SkipSpaces(f.rest, next_space + 1)]

\* SkipBadToken with the scan resumed one character further, as a search for
\* the next match would
SkipBadTokenSearches(f) ==
    LET next_space == find(f.rest, " ", f.pos)
        bad_token == IF next_space = -1 THEN Slice(f.rest, f.pos, f.length)
                     ELSE Slice(f.rest, f.pos, next_space)
        g == IF bad_token # <<>> THEN Warn(f, "bad_token") ELSE f
    IN  [g EXCEPT !.pos = f.pos + 1]

\* lines 88-96: no match at pos
SkipBadToken(f) ==
    LET next_space == find(f.rest, " ", f.pos)
        bad_token == IF next_space = -1 THEN Slice(f.rest, f.pos, f.length)
                     ELSE Slice(f.rest, f.pos, next_space)
        g == IF bad_token # <<>> THEN Warn(f, "bad_token") ELSE f
    IN  IF next_space = -1 THEN [g EXCEPT !.ppc = "has_kv"]
        ELSE [g EXCEPT !.pos = SkipSpaces(f.rest, next_space + 1)]

\* lines 66-96: one iteration of the while loop (pos < length)
WhileBody(f) ==
    LET m == TOKEN_RE(f.rest, f.pos)
    IN  IF m.matched
        THEN LET key == IF f.o.normalize_keys THEN lower(m.key) ELSE m.key
             IN  [f EXCEPT !.fields = Insert(f.fields, key, Decode(m), f.o.collect_duplicates),
                           !.pos = SkipSpaces(f.rest, m.end)]
        ELSE SkipBadToken(f)

\* line 65 failing: the loop is left
WhileExit(f) == [f EXCEPT !.ppc = "has_kv"]

\* lines 97-100
Finish(f) ==
    LET has_kv == \E k \in DOMAIN f.fields : k # <<>> /\ k # K_timestamp
    IN  IF ~has_kv /\ f.fields[K_timestamp].t = "none"
        THEN Return(f, RetNone)
        ELSE Return(f, RetDict(f.fields))

\* the next step of an invocation that has not returned
Step(f) ==
    IF f.ppc = "while"
    THEN IF f.pos < f.length THEN WhileBody(f) ELSE WhileExit(f)
    ELSE Finish(f)

RECURSIVE Run(_)
Run(f) == IF f.ppc = "return" THEN f ELSE Run(Step(f))

\* A whole call: the frame it ends in
parse_log_line(line, o) == Run(Enter(line, o))

-----------------------------------------------------------------------------
(* count_failed_logins *)

\* A Counter: its entries [key, count] in insertion order
EmptyCounter == <<>>
Count(ctr, k) ==
    IF \E n \in DOMAIN ctr : ctr[n].key = k
    THEN ctr[CHOOSE n \in DOMAIN ctr : ctr[n].key = k].count
    ELSE 0
Keys(ctr) == {ctr[n].key : n \in DOMAIN ctr}

\* Incr with "ctr[k] = 1" for "ctr[k] += 1"
IncrOverwrites(ctr, k) ==
    IF \E n \in DOMAIN ctr : ctr[n].key = k
    THEN [n \in DOMAIN ctr |->
             IF ctr[n].key = k THEN [ctr[n] EXCEPT !.count = 1] ELSE ctr[n]]
    ELSE Append(ctr, [key |-> k, count |-> 1])

\* ctr[k] += 1
Incr(ctr, k) ==
    IF \E n \in DOMAIN ctr : ctr[n].key = k
    THEN [n \in DOMAIN ctr |->
             IF ctr[n].key = k THEN [ctr[n] EXCEPT !.count = @ + 1] ELSE ctr[n]]
    ELSE Append(ctr, [key |-> k, count |-> 1])

\* SumValues with len(ctr) for sum(ctr.values())
SumValuesCountsKeys(ctr) == Len(ctr)

\* sum(ctr.values())
RECURSIVE SumValues(_)
SumValues(ctr) ==
    IF ctr = <<>> THEN 0 ELSE ctr[1].count + SumValues(Tail(ctr))

\* _as_list(v), lines 108-111
as_list(v) ==
    IF v.t = "none" THEN <<>>
    ELSE IF v.t = "list" THEN v.v
    ELSE <<v.v[1]>>

\* IncrEach over set(values): a value repeated in one line is counted once
RECURSIVE IncrEachOnce(_, _)
IncrEachOnce(ctr, values) ==
    IF values = <<>> THEN ctr
    ELSE IncrEachOnce(IF Head(values) # <<>>
                         /\ \A n \in 2..Len(values) : values[n] # Head(values)
                      THEN Incr(ctr, Head(values)) ELSE ctr,
                      Tail(values))

\* IncrEach with the tests "if u:" and "if ip:" left out
RECURSIVE IncrEachCountsEmpty(_, _)
IncrEachCountsEmpty(ctr, values) ==
    IF values = <<>> THEN ctr
    ELSE IncrEachCountsEmpty(Incr(ctr, Head(values)), Tail(values))

\* for u in values: if u: ctr[u] += 1   (lines 139-144)
RECURSIVE IncrEach(_, _)
IncrEach(ctr, values) ==
    IF values = <<>> THEN ctr
    ELSE IncrEach(IF Head(values) # <<>> THEN Incr(ctr, Head(values)) ELSE ctr,
                  Tail(values))

\* IsFail with the status values compared as written, "str(s).upper()" left out
IsFailExact(parsed) ==
    LET statuses == as_list(Get(parsed, K_status))
    IN  \E n \in DOMAIN statuses : statuses[n] = S_FAIL

\* any(s == 'FAIL' for s in statuses), lines 134-135
IsFail(parsed) ==
    LET statuses == [n \in DOMAIN as_list(Get(parsed, K_status)) |->
                        upper(as_list(Get(parsed, K_status))[n])]
    IN  \E n \in DOMAIN statuses : statuses[n] = S_FAIL

\* NewTally with the two Counters taken over from the run before
NewTallyKeepsCounters ==
    [users_ctr |-> users_ctr, ips_ctr |-> ips_ctr,
     seen |-> 0, counted |-> 0, skipped |-> 0, aborted |-> FALSE]

\* The locals of count_failed_logins that the loop changes
NewTally ==
    [users_ctr |-> EmptyCounter, ips_ctr |-> EmptyCounter,
     seen |-> 0, counted |-> 0, skipped |-> 0, aborted |-> FALSE]

\* ForBody with "seen += 1" moved above the test of parsed
ForBodySeenFirst(a, line) ==
    LET call == parse_log_line(line, BulkOpts)
        parsed == call.ret
    IN  IF call.raised THEN [a EXCEPT !.aborted = TRUE]
        ELSE IF parsed.t = "None" THEN [a EXCEPT !.seen = @ + 1, !.skipped = @ + 1]
        ELSE IF ~IsFail(parsed.d) THEN [a EXCEPT !.seen = @ + 1]
        ELSE [a EXCEPT !.seen = @ + 1,
                       !.users_ctr = IncrEach(@, as_list(Get(parsed.d, K_user))),
                       !.ips_ctr = IncrEach(@, as_list(Get(parsed.d, K_ip))),
                       !.counted = @ + 1]

\* ForBody with "skipped += 1" left out
ForBodyNoSkipCount(a, line) ==
    LET call == parse_log_line(line, BulkOpts)
        parsed == call.ret
    IN  IF call.raised THEN [a EXCEPT !.aborted = TRUE]
        ELSE IF parsed.t = "None" THEN a
        ELSE IF ~IsFail(parsed.d) THEN [a EXCEPT !.seen = @ + 1]
        ELSE [a EXCEPT !.seen = @ + 1,
                       !.users_ctr = IncrEach(@, as_list(Get(parsed.d, K_user))),
                       !.ips_ctr = IncrEach(@, as_list(Get(parsed.d, K_ip))),
                       !.counted = @ + 1]

\* ForBody with the "continue" of line 137 left out
ForBodyNoContinue(a, line) ==
    LET call == parse_log_line(line, BulkOpts)
        parsed == call.ret
    IN  IF call.raised THEN [a EXCEPT !.aborted = TRUE]
        ELSE IF parsed.t = "None" THEN [a EXCEPT !.skipped = @ + 1]
        ELSE [a EXCEPT !.seen = @ + 1,
                       !.users_ctr = IncrEach(@, as_list(Get(parsed.d, K_user))),
                       !.ips_ctr = IncrEach(@, as_list(Get(parsed.d, K_ip))),
                       !.counted = @ + 1]

\* ForBody with the loop over the ip values run only when the record has a
\* user entry
ForBodyIpsNeedUser(a, line) ==
    LET call == parse_log_line(line, BulkOpts)
        parsed == call.ret
    IN  IF call.raised THEN [a EXCEPT !.aborted = TRUE]
        ELSE IF parsed.t = "None" THEN [a EXCEPT !.skipped = @ + 1]
        ELSE IF ~IsFail(parsed.d) THEN [a EXCEPT !.seen = @ + 1]
        ELSE [a EXCEPT !.seen = @ + 1,
                       !.users_ctr = IncrEach(@, as_list(Get(parsed.d, K_user))),
                       !.ips_ctr = IF as_list(Get(parsed.d, K_user)) = <<>> THEN @
                                   ELSE IncrEach(@, as_list(Get(parsed.d, K_ip))),
                       !.counted = @ + 1]

\* ForBody with "counted += 1" run only for a failure event that has a
\* non-empty user or ip value
ForBodyCountsContributors(a, line) ==
    LET call == parse_log_line(line, BulkOpts)
        parsed == call.ret
    IN  IF call.raised THEN [a EXCEPT !.aborted = TRUE]
        ELSE IF parsed.t = "None" THEN [a EXCEPT !.skipped = @ + 1]
        ELSE IF ~IsFail(parsed.d) THEN [a EXCEPT !.seen = @ + 1]
        ELSE [a EXCEPT !.seen = @ + 1,
                       !.users_ctr = IncrEach(@, as_list(Get(parsed.d, K_user))),
                       !.ips_ctr = IncrEach(@, as_list(Get(parsed.d, K_ip))),
                       !.counted =
                           IF IncrEach(a.users_ctr, as_list(Get(parsed.d, K_user))) = a.users_ctr
                              /\ IncrEach(a.ips_ctr, as_list(Get(parsed.d, K_ip))) = a.ips_ctr
                           THEN @ ELSE @ + 1]

\* ForBody with a failure event counted only while no line has been skipped
ForBodyQuietAfterSkip(a, line) ==
    LET call == parse_log_line(line, BulkOpts)
        parsed == call.ret
    IN  IF call.raised THEN [a EXCEPT !.aborted = TRUE]
        ELSE IF parsed.t = "None" THEN [a EXCEPT !.skipped = @ + 1]
        ELSE IF ~IsFail(parsed.d) \/ a.skipped > 0 THEN [a EXCEPT !.seen = @ + 1]
        ELSE [a EXCEPT !.seen = @ + 1,
                       !.users_ctr = IncrEach(@, as_list(Get(parsed.d, K_user))),
                       !.ips_ctr = IncrEach(@, as_list(Get(parsed.d, K_ip))),
                       !.counted = @ + 1]

\* lines 128-146: the body of the for loop on one line.  aborted is set when
\* parse_log_line leaves by an exception, which the loop does not catch.
ForBody(a, line) ==
    LET call == parse_log_line(line, BulkOpts)
        parsed == call.ret
    IN  IF call.raised THEN [a EXCEPT !.aborted = TRUE]
        ELSE IF parsed.t = "None" THEN [a EXCEPT !.skipped = @ + 1]
        ELSE IF ~IsFail(parsed.d) THEN [a EXCEPT !.seen = @ + 1]
        ELSE [a EXCEPT !.seen = @ + 1,
                       !.users_ctr = IncrEach(@, as_list(Get(parsed.d, K_user))),
                       !.ips_ctr = IncrEach(@, as_list(Get(parsed.d, K_ip))),
                       !.counted = @ + 1]

\* lines 148-155: the returned dict
NoStats ==
    [returned |-> FALSE, users |-> EmptyCounter, ips |-> EmptyCounter,
     total_fail |-> 0, seen |-> 0, counted |-> 0, skipped |-> 0]

\* Result with the fallback reversed: the address counts first
ResultIpsFirst(a) ==
    [returned |-> TRUE, users |-> a.users_ctr, ips |-> a.ips_ctr,
     total_fail |-> IF a.ips_ctr # EmptyCounter THEN SumValues(a.ips_ctr)
                    ELSE SumValues(a.users_ctr),
     seen |-> a.seen, counted |-> a.counted, skipped |-> a.skipped]
\* Result with total_fail taken from counted
ResultTotalIsCounted(a) ==
    [returned |-> TRUE, users |-> a.users_ctr, ips |-> a.ips_ctr,
     total_fail |-> a.counted,
     seen |-> a.seen, counted |-> a.counted, skipped |-> a.skipped]

Result(a) ==
    [returned |-> TRUE, users |-> a.users_ctr, ips |-> a.ips_ctr,
     total_fail |-> IF a.users_ctr # EmptyCounter THEN SumValues(a.users_ctr)
                    ELSE SumValues(a.ips_ctr),
     seen |-> a.seen, counted |-> a.counted, skipped |-> a.skipped]

\* count_failed_logins(ls) as a function of its argument: the tally after the
\* loop has run over ls (the loop stops at a line that aborts it)
RECURSIVE Tally(_)
Tally(ls) ==
    IF ls = <<>> THEN NewTally
    ELSE LET a == Tally(SubSeq(ls, 1, Len(ls) - 1))
         IN  IF a.aborted THEN a ELSE ForBody(a, ls[Len(ls)])

count_failed_logins(ls) == Result(Tally(ls))

\* PlaceByCount with e put in front of the entries of equal count
RECURSIVE PlaceByCountUnstable(_, _)
PlaceByCountUnstable(d, e) ==
    IF d = <<>> THEN <<e>>
    ELSE IF Head(d).count > e.count THEN <<Head(d)>> \o PlaceByCountUnstable(Tail(d), e)
    ELSE <<e>> \o d

\* Counter.most_common() is sorted(items, key=count, reverse=True), a stable
\* sort: PlaceByCount puts e into the sorted d behind every entry whose count
\* is at least e's
RECURSIVE PlaceByCount(_, _)
PlaceByCount(d, e) ==
    IF d = <<>> THEN <<e>>
    ELSE IF Head(d).count >= e.count THEN <<Head(d)>> \o PlaceByCount(Tail(d), e)
    ELSE <<e>> \o d

\* ctr.most_common(), lines 188-189
RECURSIVE most_common(_)
most_common(ctr) ==
    IF ctr = <<>> THEN <<>>
    ELSE PlaceByCount(most_common(SubSeq(ctr, 1, Len(ctr) - 1)), ctr[Len(ctr)])

-----------------------------------------------------------------------------
(* Inputs *)

MaxTokens == 2      \* tokens after the timestamp region of a generated line
MaxRuns == 2        \* calls of count_failed_logins in one behaviour
MaxLines == 2       \* lines handed to one run of count_failed_logins

TsValid == <<"2","0","2","4","-","1","1","-","2","5"," ","0","8",":","3","0",":","1","2">>
TsBlank == <<" "," "," "," "," "," "," "," "," "," "," "," "," "," "," "," "," "," "," ">>
DateOnly == <<"2","0","2","4","-","1","1","-","2","5">>

T_status_FAIL == <<"s","t","a","t","u","s","=","F","A","I","L">>
T_status_fail == <<"s","t","a","t","u","s","=","f","a","i","l">>
T_status_OK == <<"s","t","a","t","u","s","=","O","K">>
T_user_a == <<"u","s","e","r","=","a">>
T_user_b == <<"u","s","e","r","=","b">>
T_USER_c == <<"U","S","E","R","=","c">>
T_ip_x == <<"i","p","=","x">>
T_ip_y == <<"i","p","=","y">>
T_timestamp_z == <<"t","i","m","e","s","t","a","m","p","=","z">>
T_status == <<"s","t","a","t","u","s">>
T_9x_1 == <<"9","x","=","1">>
T_dq == <<"m","=","\"","a"," ","\\","\"","b","\"">>
T_sq == <<"n","=","'","i","\\","'","s","'">>
T_user_empty == <<"u","s","e","r","=","\"","\"">>
T_STATUS_FAIL == <<"S","T","A","T","U","S","=","F","A","I","L">>
T_USER_a == <<"U","S","E","R","=","a">>
T_IP_x == <<"I","P","=","x">>
T_event == <<"e","v","e","n","t","=","L","O","G","I","N">>

T_status_SUCCESS == <<"s","t","a","t","u","s","=","S","U","C","C","E","S","S">>
\* the FAIL line of the sample log, line 163
SampleFail ==
    <<"2","0","2","4","-","1","1","-","2","5"," ","0","8",":","3","0",":","1","2"," ","e","v","e","n","t","=","L","O","G","I","N"," ","s","t","a","t","u","s","=","F","A","I","L"," ">>
    \o <<"u","s","e","r","=","a","d","m","i","n"," ","i","p","=","1","9","8",".","5","1",".","1","0","0",".","4","5"," ","m","e","t","h","o","d","=","S","S","H">>
\* a timestamp cut one character short
TsCut == <<"2","0","2","4","-","1","1","-","2","5"," ","0","8",":","3","0",":","1">>

\* a double-quoted value that opens and closes with an escaped quote
T_dq2 == <<"q","=","\"","\\","\"","x"," ","y","\\","\"","\"">>

\* 19-character regions that are neither blank nor a timestamp
TsBad == <<"2","0","2","4","-","1","1","-","2","5","T","0","8",":","3","0",":","1","2">>
TsAlmostBlank == <<" "," "," "," "," "," "," "," "," "," "," "," "," "," "," "," "," "," ","x">>

T_Timestamp_y == <<"T","i","m","e","s","t","a","m","p","=","y">>

\* a token that starts with "="
T_eq_k_v == <<"=","k","=","v">>

T_ip_empty == <<"i","p","=","\"","\"">>

Tokens == {T_status_FAIL, T_user_a, T_user_b, T_USER_c, T_timestamp_z, T_status, T_9x_1, T_dq}
Seps == {" ", "\t"}

\* toks joined by the separator character sep
RECURSIVE Join(_, _)
Join(toks, sep) ==
    IF toks = <<>> THEN <<>>
    ELSE IF Len(toks) = 1 THEN toks[1]
    ELSE toks[1] \o <<sep>> \o Join(Tail(toks), sep)

TokenSeqs == UNION {[1..n -> Tokens] : n \in 0..MaxTokens}

\* A timestamp region, a space, and tokens separated by single spaces
Line(region, toks) == StrLine(region \o <<" ">> \o Join(toks, " "))

\* The lines handed to parse_log_line directly
ParserLines ==
    {StrLine(region \o <<" ">> \o Join(toks, sep)) :
        region \in {TsValid, TsBlank}, toks \in TokenSeqs, sep \in Seps}
    \cup {StrLine(<<>>), StrLine(<<" ", "\t", "\n">>), StrLine(DateOnly),
          Line(DateOnly, <<T_event, T_status_FAIL, T_user_a, T_ip_x>>),
          Line(TsValid, <<T_sq, T_user_empty>>),
          StrLine(TsValid \o <<" ">> \o T_user_a \o <<"\n">>),
          StrLine(SampleFail), StrLine(TsCut), StrLine(T_user_a),
          Line(TsValid, <<T_user_a, T_eq_k_v, T_9x_1, T_ip_x>>),
          Line(TsBlank, <<T_eq_k_v>>),
          Line(TsValid, <<T_Timestamp_y, T_timestamp_z>>),
          Line(TsValid, <<T_STATUS_FAIL, T_USER_a, T_status_OK>>),
          Line(TsBad, <<T_user_a>>), Line(TsAlmostBlank, <<T_status_FAIL, T_user_a>>),
          Line(TsValid, <<T_dq2>>), Line(TsValid, <<T_9x_1, T_dq2, T_dq, T_user_a>>),
          StrLine(T_status_FAIL \o <<" ">> \o T_user_a), StrLine(<<"x", "\n">>),
          NoneLine, IntLine(<<"4", "2">>), BadObjLine}

\* The lines of a log handed to count_failed_logins
LogLines ==
    {Line(TsValid, <<T_status_FAIL, T_user_a, T_ip_x>>),
     Line(TsValid, <<T_status_FAIL, T_user_b, T_ip_x>>),
     Line(TsValid, <<T_status_OK, T_user_a, T_ip_x>>),
     Line(TsValid, <<T_status_FAIL, T_user_a, T_user_a>>),
     Line(TsValid, <<T_status_OK, T_status_fail, T_user_b, T_ip_y>>),
     Line(TsValid, <<T_status_FAIL, T_ip_y>>),
     Line(TsValid, <<T_status, T_user_a, T_ip_x>>),
     Line(TsValid, <<T_status_FAIL, T_user_empty, T_ip_x>>),
     Line(TsValid, <<T_STATUS_FAIL, T_USER_a, T_IP_x>>),
     Line(TsValid, <<T_status_FAIL>>),
     Line(TsValid, <<T_status_SUCCESS, T_user_b, T_ip_y>>),
     Line(TsValid, <<T_user_a, T_ip_x>>),
     StrLine(SampleFail),
     Line(TsValid, <<T_status_FAIL, T_user_empty, T_ip_empty>>),
     Line(TsValid, <<T_status_FAIL, T_user_a, T_user_a, T_ip_y>>),
     Line(DateOnly, <<T_event, T_status_FAIL, T_user_a, T_ip_x>>),
     StrLine(<<>>), StrLine(<<" ", " ">>), NoneLine, BadObjLine}

Logs == UNION {[1..n -> LogLines] : n \in 0..MaxLines}

\* The logs handed to a run that follows another run
LaterLogs ==
    {<<>>,
     <<Line(TsValid, <<T_status_FAIL, T_user_a, T_ip_x>>)>>,
     <<Line(TsValid, <<T_status_SUCCESS, T_user_b, T_ip_y>>),
       Line(TsValid, <<T_status_FAIL, T_user_b, T_ip_x>>)>>,
     <<Line(DateOnly, <<T_event, T_status_FAIL, T_user_a, T_ip_x>>)>>}

-----------------------------------------------------------------------------
(* The program: direct calls of parse_log_line, and runs of               *)
(* count_failed_logins, one at a time (the code is single-threaded).       *)

Init ==
    /\ frame = IdleFrame
    /\ pc = "idle"
    /\ lines = <<>>
    /\ idx = 0
    /\ users_ctr = EmptyCounter
    /\ ips_ctr = EmptyCounter
    /\ seen = 0
    /\ counted = 0
    /\ skipped = 0
    /\ stats = NoStats
    /\ top_users = <<>>
    /\ top_ips = <<>>
    /\ runs = 0

aggregator == <<pc, lines, idx, users_ctr, ips_ctr, seen, counted, skipped, stats,
                top_users, top_ips, runs>>

\* parse_log_line(line, **o) is called: lines 40-64
ParseCall ==
    /\ pc = "idle"
    /\ frame.ppc = "idle"
    /\ \E line \in ParserLines, o \in Opts : frame' = Enter(line, o)
    /\ UNCHANGED aggregator

\* one iteration of the while loop, lines 65-96
ParseWhileBody ==
    /\ frame.ppc = "while"
    /\ frame.pos < frame.length
    /\ frame' = WhileBody(frame)
    /\ UNCHANGED aggregator

\* the loop test fails
ParseWhileExit ==
    /\ frame.ppc = "while"
    /\ ~(frame.pos < frame.length)
    /\ frame' = WhileExit(frame)
    /\ UNCHANGED aggregator

\* lines 97-100
ParseFinish ==
    /\ frame.ppc = "has_kv"
    /\ frame' = Finish(frame)
    /\ UNCHANGED aggregator

\* the caller has the result; the invocation's locals are gone
ParseReturn ==
    /\ frame.ppc = "return"
    /\ frame' = IdleFrame
    /\ UNCHANGED aggregator

\* count_failed_logins(ls) is called, for the first time or after an earlier
\* run has returned: lines 121-125.  stats and the views are those of the
\* current run, so the caller's earlier ones are dropped here.
CountCall ==
    /\ pc \in {"idle", "done", "printed"}
    /\ frame.ppc = "idle"
    /\ runs < MaxRuns
    /\ runs' = runs + 1
    /\ pc' = "for"
    /\ \E ls \in (IF runs = 0 THEN Logs ELSE LaterLogs) : lines' = ls
    /\ idx' = 0
    /\ users_ctr' = NewTally.users_ctr
    /\ ips_ctr' = NewTally.ips_ctr
    /\ seen' = NewTally.seen
    /\ counted' = NewTally.counted
    /\ skipped' = NewTally.skipped
    /\ stats' = NoStats
    /\ top_users' = <<>>
    /\ top_ips' = <<>>
    /\ UNCHANGED frame

Locals ==
    [users_ctr |-> users_ctr, ips_ctr |-> ips_ctr, seen |-> seen,
     counted |-> counted, skipped |-> skipped, aborted |-> FALSE]

\* the for loop takes the next line: lines 127-146
ForIter ==
    /\ pc = "for"
    /\ idx < Len(lines)
    /\ LET a == ForBody(Locals, lines[idx + 1])
       IN  /\ users_ctr' = a.users_ctr
           /\ ips_ctr' = a.ips_ctr
           /\ seen' = a.seen
           /\ counted' = a.counted
           /\ skipped' = a.skipped
           /\ pc' = IF a.aborted THEN "aborted" ELSE "for"
    /\ idx' = idx + 1
    /\ UNCHANGED <<frame, lines, stats, top_users, top_ips, runs>>

\* the loop is exhausted: lines 148-155
CountReturn ==
    /\ pc = "for"
    /\ idx = Len(lines)
    /\ stats' = Result(Locals)
    /\ pc' = "done"
    /\ UNCHANGED <<frame, lines, idx, users_ctr, ips_ctr, seen, counted, skipped,
                   top_users, top_ips, runs>>

\* the most-frequent views of the two maps are taken: lines 188-189
PrintTop ==
    /\ pc = "done"
    /\ top_users' = most_common(stats.users)
    /\ top_ips' = most_common(stats.ips)
    /\ pc' = "printed"
    /\ UNCHANGED <<frame, lines, idx, users_ctr, ips_ctr, seen, counted, skipped, stats,
                   runs>>

Next ==
    \/ ParseCall
    \/ ParseWhileBody
    \/ ParseWhileExit
    \/ ParseFinish
    \/ ParseReturn
    \/ CountCall
    \/ ForIter
    \/ CountReturn
    \/ PrintTop

Spec == Init /\ [][Next]_vars

\* a match is about to be attempted: the loop test of line 65 has passed
AtMatch == frame.ppc = "while" /\ frame.pos < frame.length

\* An invocation of parse_log_line that is in its loop goes on: the code is
\* single-threaded and nothing in lines 65-96 waits.  The fairness of
\* ParseWhileBody is written with its enabling condition: the step is
\* possible exactly when a match is about to be attempted, because an
\* iteration never leaves the frame as it was (C29's third conjunct).
FairSpec ==
    /\ Spec
    /\ WF_vars(ParseWhileExit)
    /\ ([]<>(~AtMatch) \/ []<><<ParseWhileBody>>_vars)

-----------------------------------------------------------------------------
(* Properties *)

\* The line of the invocation in frame is a str whose first 19 characters
\* match the timestamp pattern
RegionMatches(line) ==
    /\ line.t = "str"
    /\ Len(line.s) >= TsWidth
    /\ TIMESTAMP_RE(Slice(line.s, 0, TsWidth))

\* C1: for every line whose first 19 characters match YYYY-MM-DD HH:MM:SS,
\* under every option setting and whatever tokens follow, parse_log_line
\* returns a record whose timestamp entry is exactly that 19-character prefix.
C1_TimestampIsPrefix ==
    (frame.ppc = "return" /\ RegionMatches(frame.line))
        => /\ frame.ret.t = "dict"
           /\ Get(frame.ret.d, K_timestamp) = PyStr(Slice(frame.line.s, 0, TsWidth))

\* An all-blank line: empty, or only whitespace
IsBlank(line) == line.t = "str" /\ strip(line.s) = <<>>

\* the for loop is about to take an all-blank line
AtBlankLine == pc = "for" /\ idx < Len(lines) /\ IsBlank(lines[idx + 1])

\* C2 as claimed: an all-blank line makes parse_log_line return None and
\* leaves seen, counted, skipped and both frequency maps as they were.
C2_BlankLineChangesNothing ==
    [][AtBlankLine =>
          /\ parse_log_line(lines[idx + 1], BulkOpts).ret = RetNone
          /\ seen' = seen /\ counted' = counted /\ skipped' = skipped
          /\ users_ctr' = users_ctr /\ ips_ctr' = ips_ctr]_vars

\* C2, amended: an all-blank line makes parse_log_line return None (under every
\* option setting); count_failed_logins adds one to skipped for it and leaves
\* seen, counted and both frequency maps as they were.
C2_BlankLineIsSkipped ==
    [][AtBlankLine =>
          /\ \A o \in Opts : parse_log_line(lines[idx + 1], o).ret = RetNone
          /\ seen' = seen /\ counted' = counted /\ skipped' = skipped + 1
          /\ users_ctr' = users_ctr /\ ips_ctr' = ips_ctr]_vars

\* a run has consumed an all-blank line after counting a failure event
C2_Witness ==
    /\ pc = "for" /\ idx >= 2 /\ IsBlank(lines[idx])
    /\ skipped >= 1 /\ counted >= 1

\* C3: after any prefix of the input, and at the end, seen + skipped is the
\* number of lines processed and counted <= seen.
C3_SeenPlusSkipped ==
    /\ pc \in {"for", "done"} => seen + skipped = idx /\ counted <= seen
    /\ pc = "done" =>
          /\ idx = Len(lines)
          /\ stats.seen + stats.skipped = Len(lines)
          /\ stats.counted <= stats.seen

\* a finished run that counted one line and skipped another
C3_Witness ==
    pc = "done" /\ Len(lines) = 2 /\ stats.skipped = 1 /\ stats.counted = 1 /\ stats.seen = 1

\* C4: whenever parse_log_line returns a record, the timestamp region matched
\* the pattern or the record holds a key other than timestamp; a line with a
\* blank region and no other field is never returned as a record.
C4_RecordHasTimestampOrField ==
    (frame.ppc = "return" /\ frame.ret.t = "dict")
        => \/ TIMESTAMP_RE(frame.ts_field)
           \/ \E k \in DOMAIN frame.ret.d : k # K_timestamp

\* C5: parse_log_line returns a record or None for every input and every
\* option setting and never raises; count_failed_logins runs over every line
\* of its input without aborting.
C5_Total ==
    /\ frame.ppc = "return" => ~frame.raised /\ frame.ret.t \in {"None", "dict"}
    /\ pc # "aborted"
    /\ pc = "done" => idx = Len(lines) /\ stats.returned

\* parse_log_line has returned None for an object whose __str__ raised
C5_Witness ==
    frame.ppc = "return" /\ frame.line = BadObjLine /\ frame.ret = RetNone

\* tok, alone, is one key=value token of the grammar
WellFormed(tok) ==
    LET m == TOKEN_RE(tok, 0) IN m.matched /\ m.end = Len(tok)

\* d holds the field of the well-formed token tok, parsed under options o
HoldsToken(d, o, tok) ==
    LET m == TOKEN_RE(tok, 0)
        key == IF o.normalize_keys THEN lower(m.key) ELSE m.key
    IN  /\ key \in DOMAIN d
        /\ o.collect_duplicates =>
              \E n \in DOMAIN as_list(d[key]) : as_list(d[key])[n] = Decode(m)

\* C6: in a line with an accepted timestamp region, a token that fails the
\* key=value grammar is skipped without rejecting the line, and every
\* well-formed token that follows it after whitespace (space or tab) is still
\* inserted into the record.  (Stated for the lines made of a matching region
\* and tokens joined by one separator; tokens keyed timestamp are C1's.)
C6_TokensAfterBadTokenKept ==
    frame.ppc = "return" =>
        \A toks \in TokenSeqs, sep \in Seps :
            frame.line = StrLine(TsValid \o <<" ">> \o Join(toks, sep)) =>
                \A j \in DOMAIN toks :
                    (/\ WellFormed(toks[j])
                     /\ TOKEN_RE(toks[j], 0).key # K_timestamp
                     /\ \E i \in 1..(j - 1) : ~WellFormed(toks[i]))
                    => /\ frame.ret.t = "dict"
                       /\ HoldsToken(frame.ret.d, frame.o, toks[j])

\* The record count_failed_logins gets for a line, and whether it is a failure event
Parsed(line) == parse_log_line(line, BulkOpts).ret
FailureEvent(line) == Parsed(line).t = "dict" /\ IsFail(Parsed(line).d)
FieldValues(line, k) == as_list(Get(Parsed(line).d, k))

\* the identifiers under field k in the lines ls
Ids(ls, k) ==
    UNION {{FieldValues(ls[n], k)[m] : m \in DOMAIN FieldValues(ls[n], k)} : n \in DOMAIN ls}

\* the number of failure events among ls whose field k contains x
EventsWith(ls, k, x) ==
    Cardinality({n \in DOMAIN ls :
                    /\ FailureEvent(ls[n])
                    /\ \E m \in DOMAIN FieldValues(ls[n], k) : FieldValues(ls[n], k)[m] = x})

\* the number of times x stands under field k in the failure events among ls
RECURSIVE Occurrences(_, _, _)
Occurrences(ls, k, x) ==
    IF ls = <<>> THEN 0
    ELSE Occurrences(Tail(ls), k, x)
         + (IF FailureEvent(Head(ls))
            THEN Cardinality({m \in DOMAIN FieldValues(Head(ls), k) :
                                 FieldValues(Head(ls), k)[m] = x})
            ELSE 0)

\* C7 as claimed: after count_failed_logins, users[u] is the number of failure
\* events whose user field contains u, and ips[a] the number of failure events
\* whose ip field contains a, for every identifier.
C7_CountsFailureEvents ==
    pc = "done" =>
        /\ \A u \in Ids(lines, K_user) \cup Keys(stats.users) :
              Count(stats.users, u) = EventsWith(lines, K_user, u)
        /\ \A a \in Ids(lines, K_ip) \cup Keys(stats.ips) :
              Count(stats.ips, a) = EventsWith(lines, K_ip, a)

\* C7, amended: users[u] is the number of times the non-empty identifier u
\* stands under the user field of the failure events (a value repeated in one
\* line counts each time), and likewise ips[a]; this holds of the counters
\* after every prefix of the input and of the returned maps.
C7_CountsOccurrences ==
    /\ pc \in {"for", "done"} =>
          LET done == SubSeq(lines, 1, idx)
          IN  /\ \A u \in (Ids(done, K_user) \cup Keys(users_ctr)) \ {<<>>} :
                    Count(users_ctr, u) = Occurrences(done, K_user, u)
              /\ \A a \in (Ids(done, K_ip) \cup Keys(ips_ctr)) \ {<<>>} :
                    Count(ips_ctr, a) = Occurrences(done, K_ip, a)
    /\ pc = "done" => stats.users = users_ctr /\ stats.ips = ips_ctr

\* a finished run in which one user was counted three times by two lines
C7_Witness ==
    /\ pc = "done" /\ Len(lines) = 2
    /\ \E u \in Keys(stats.users) : Count(stats.users, u) = 3

\* The partial results of the two shards the input splits into after k lines
ShardA(k) == count_failed_logins(SubSeq(lines, 1, k))
ShardB(k) == count_failed_logins(SubSeq(lines, k + 1, Len(lines)))

\* two Counters, added entry by entry, give the Counter whole (as mappings)
SumsTo(x, y, whole) ==
    \A k \in Keys(x) \cup Keys(y) \cup Keys(whole) :
        Count(x, k) + Count(y, k) = Count(whole, k)

\* C8: for every split of the input into consecutive shards A and B, adding
\* the partial users maps, ips maps, seen, counted and skipped gives those of
\* count_failed_logins run on A followed by B.
C8_ShardsMerge ==
    pc = "done" =>
        \A k \in 0..Len(lines) :
            /\ SumsTo(ShardA(k).users, ShardB(k).users, stats.users)
            /\ SumsTo(ShardA(k).ips, ShardB(k).ips, stats.ips)
            /\ ShardA(k).seen + ShardB(k).seen = stats.seen
            /\ ShardA(k).counted + ShardB(k).counted = stats.counted
            /\ ShardA(k).skipped + ShardB(k).skipped = stats.skipped

\* a finished run whose two one-line shards both counted the same user and address
C8_Witness ==
    /\ pc = "done" /\ Len(lines) = 2
    /\ ShardA(1).counted = 1 /\ ShardB(1).counted = 1
    /\ \E u \in Keys(ShardA(1).users) \cap Keys(ShardB(1).users) : Count(stats.users, u) >= 2
    /\ \E a \in Keys(ShardA(1).ips) \cap Keys(ShardB(1).ips) : Count(stats.ips, a) >= 2

\* C9 as claimed: total_fail merges by summation over every split.
C9_TotalFailSums ==
    pc = "done" =>
        \A k \in 0..Len(lines) :
            stats.total_fail = ShardA(k).total_fail + ShardB(k).total_fail

\* C9, amended: total_fail does not merge by summation; for every split it is
\* the fallback rule applied to the summed maps (the sum of the merged users
\* map when that is non-empty, else the sum of the merged ips map), and it is
\* total_fail(A) + total_fail(B) when the users maps of A and B are both
\* empty or both non-empty.
C9_TotalFailFromMergedMaps ==
    pc = "done" =>
        \A k \in 0..Len(lines) :
            LET A == ShardA(k)
                B == ShardB(k)
            IN  /\ stats.total_fail =
                      IF A.users # EmptyCounter \/ B.users # EmptyCounter
                      THEN SumValues(A.users) + SumValues(B.users)
                      ELSE SumValues(A.ips) + SumValues(B.ips)
                /\ ((A.users = EmptyCounter) = (B.users = EmptyCounter))
                      => stats.total_fail = A.total_fail + B.total_fail

\* a finished run with a shard that has addresses but no users, next to one with users
C9_Witness ==
    /\ pc = "done" /\ Len(lines) = 2
    /\ ShardA(1).users = EmptyCounter /\ ShardA(1).ips # EmptyCounter
    /\ ShardB(1).users # EmptyCounter
    /\ stats.total_fail < ShardA(1).total_fail + ShardB(1).total_fail

\* C10: warn_on_junk never affects the return value: with the option flipped
\* and the other options as they are, the same line gives an equal result.
C10_WarnOnJunkIrrelevant ==
    frame.ppc = "return" =>
        LET other == parse_log_line(frame.line, [frame.o EXCEPT !.warn_on_junk = ~@])
        IN  /\ other.ret = frame.ret
            /\ other.raised = frame.raised

\* a record was returned although a malformed token was warned about
C10_Witness ==
    /\ frame.ppc = "return" /\ frame.ret.t = "dict" /\ frame.o.warn_on_junk
    /\ \E n \in DOMAIN frame.warns : frame.warns[n] = "bad_token"
    /\ \E k \in DOMAIN frame.ret.d : k # K_timestamp

\* ---- C11: duplicate keys ----

\* the key under which the well-formed token tok is stored with options o
KeyOf(o, tok) ==
    IF o.normalize_keys THEN lower(TOKEN_RE(tok, 0).key) ELSE TOKEN_RE(tok, 0).key

\* the decoded values, in order, of the well-formed tokens of toks stored under k
RECURSIVE ValuesOf(_, _, _)
ValuesOf(o, toks, k) ==
    IF toks = <<>> THEN <<>>
    ELSE IF WellFormed(Head(toks)) /\ KeyOf(o, Head(toks)) = k
         THEN <<Decode(TOKEN_RE(Head(toks), 0))>> \o ValuesOf(o, Tail(toks), k)
         ELSE ValuesOf(o, Tail(toks), k)

\* the entry the duplicate policy gives a key whose values are vals
PolicyEntry(o, vals) ==
    IF o.collect_duplicates /\ Len(vals) > 1 THEN PyList(vals) ELSE PyStr(vals[1])

\* the returning call parsed the accepted region followed by toks, joined by spaces
ReturnsFrom(region, toks) ==
    /\ frame.ppc = "return"
    /\ frame.line = Line(region, toks)
    /\ region = TsValid \/ frame.o.allow_blank_timestamp

\* C11: for a line in which key k appears with the values v1, v2, ... in that
\* order, the record's k entry is the ordered list [v1, v2, ...] under
\* collect_duplicates=true (the scalar v1 when k appears once) and v1 under
\* collect_duplicates=false.  (Stated for the lines made of an accepted region
\* and tokens joined by single spaces.)
C11_DuplicatePolicy ==
    \A region \in {TsValid, TsBlank}, toks \in TokenSeqs :
        ReturnsFrom(region, toks) =>
            \A j \in DOMAIN toks :
                WellFormed(toks[j]) =>
                    LET k == KeyOf(frame.o, toks[j])
                    IN  /\ frame.ret.t = "dict"
                        /\ k \in DOMAIN frame.ret.d
                        /\ frame.ret.d[k] = PolicyEntry(frame.o, ValuesOf(frame.o, toks, k))

\* ---- C12: short lines ----

\* the returning call was given a line of fewer than 19 characters
ReturnsFromShort ==
    /\ frame.ppc = "return"
    /\ frame.line.t # "badobj"
    /\ Len(frame.line.s) < TsWidth

\* C12: parse_log_line returns None for every line shorter than 19 characters,
\* under every setting of its four options.
C12_ShortLineIsNone ==
    ReturnsFromShort => frame.ret = RetNone /\ ~frame.raised

\* a non-blank line one character short of a timestamp has been refused with
\* blank timestamps allowed
C12_Witness ==
    /\ ReturnsFromShort
    /\ frame.line = StrLine(TsCut)
    /\ frame.o.allow_blank_timestamp
    /\ frame.ret = RetNone

\* ---- C13: what makes a failure event ----

\* the for loop is about to take a line that parses to a record
AtParsedLine == pc = "for" /\ idx < Len(lines) /\ Parsed(lines[idx + 1]).t = "dict"

\* some value under status, the scalar or a member of the list, is FAIL once
\* uppercased
HasFailStatus(line) ==
    \E n \in DOMAIN FieldValues(line, K_status) :
        upper(FieldValues(line, K_status)[n]) = S_FAIL

\* a line whose status token has no value, as line 170 of the sample
NoValueStatusLine == Line(TsValid, <<T_status, T_user_a, T_ip_x>>)

\* C13: a parsed line adds exactly one to counted if and only if at least one
\* of its status values (scalar or list) equals FAIL after uppercasing; a line
\* with no status field, or whose status token has no value, adds nothing.
C13_CountedIffFailStatus ==
    [][AtParsedLine =>
          LET line == lines[idx + 1]
          IN  /\ HasFailStatus(line) => counted' = counted + 1
              /\ ~HasFailStatus(line) => counted' = counted
              /\ (K_status \notin DOMAIN Parsed(line).d \/ line = NoValueStatusLine)
                     => counted' = counted]_vars

\* a run over a line whose statuses are OK and fail, counted, and a line whose
\* status token has no value, not counted
C13_Witness ==
    /\ pc = "done"
    /\ lines = <<Line(TsValid, <<T_status_OK, T_status_fail, T_user_b, T_ip_y>>),
                 NoValueStatusLine>>
    /\ stats.seen = 2
    /\ stats.counted = 1

\* ---- C14: a parsed line that is not a failure event ----

\* C14: a line that parses to a record and is not a failure event adds one to
\* seen and leaves counted, skipped, the users map and the ips map unchanged.
C14_NonFailureOnlySeen ==
    [][(AtParsedLine /\ ~HasFailStatus(lines[idx + 1])) =>
          /\ seen' = seen + 1
          /\ counted' = counted /\ skipped' = skipped
          /\ users_ctr' = users_ctr /\ ips_ctr' = ips_ctr]_vars

\* a run that counted a FAIL line and then took a SUCCESS line with another
\* user and address
C14_Witness ==
    /\ pc = "done"
    /\ lines = <<Line(TsValid, <<T_status_FAIL, T_user_a, T_ip_x>>),
                 Line(TsValid, <<T_status_SUCCESS, T_user_b, T_ip_y>>)>>
    /\ stats.seen = 2 /\ stats.counted = 1 /\ stats.skipped = 0
    /\ Keys(stats.users) = {<<"a">>} /\ Keys(stats.ips) = {<<"x">>}

\* ---- C15: a line the parser rejects ----

\* a line with a date-only prefix followed by tokens, as line 171 of the sample
DateOnlyFailLine == Line(DateOnly, <<T_event, T_status_FAIL, T_user_a, T_ip_x>>)

\* C15: a line the parser rejects adds one to skipped and leaves seen, counted
\* and both frequency maps unchanged; a line with a date-only prefix is
\* rejected even though its text holds status=FAIL, user= and ip= tokens.
C15_RejectedOnlySkipped ==
    [][(pc = "for" /\ idx < Len(lines)) =>
          LET line == lines[idx + 1]
          IN  /\ line = DateOnlyFailLine => Parsed(line) = RetNone
              /\ Parsed(line) = RetNone =>
                    /\ skipped' = skipped + 1
                    /\ seen' = seen /\ counted' = counted
                    /\ users_ctr' = users_ctr /\ ips_ctr' = ips_ctr]_vars

\* a run that counted a FAIL line and then skipped the date-only line
C15_Witness ==
    /\ pc = "done"
    /\ lines = <<Line(TsValid, <<T_status_FAIL, T_user_a, T_ip_x>>), DateOnlyFailLine>>
    /\ stats.skipped = 1 /\ stats.seen = 1 /\ stats.counted = 1
    /\ Count(stats.users, <<"a">>) = 1 /\ Count(stats.ips, <<"x">>) = 1

\* ---- C16: what a failure event adds to the maps ----

\* the number of members of vals equal to v
Times(vals, v) == Cardinality({n \in DOMAIN vals : vals[n] = v})

\* after is before with one added per non-empty member of vals, and no other
\* entry made or changed
AddedPerValue(before, after, vals) ==
    /\ Keys(after) = Keys(before) \cup ({vals[n] : n \in DOMAIN vals} \ {<<>>})
    /\ \A k \in Keys(after) : Count(after, k) = Count(before, k) + Times(vals, k)

\* C16: a failure event adds one to the users counter once per non-empty value
\* under its user field and, independently, one to the ips counter once per
\* non-empty value under its ip field; no other entry of either map changes,
\* and counted grows by exactly one whether or not any user or ip is present.
C16_FailureEventAddsPerValue ==
    [][(AtParsedLine /\ HasFailStatus(lines[idx + 1])) =>
          LET line == lines[idx + 1]
          IN  /\ AddedPerValue(users_ctr, users_ctr', FieldValues(line, K_user))
              /\ AddedPerValue(ips_ctr, ips_ctr', FieldValues(line, K_ip))
              /\ counted' = counted + 1]_vars

\* a run over a failure event with two user values and no ip, then one with
\* an ip and no user
C16_Witness ==
    /\ pc = "done"
    /\ lines = <<Line(TsValid, <<T_status_FAIL, T_user_a, T_user_a>>),
                 Line(TsValid, <<T_status_FAIL, T_ip_y>>)>>
    /\ stats.counted = 2
    /\ Count(stats.users, <<"a">>) = 2 /\ Count(stats.ips, <<"y">>) = 1

\* ---- C17: total_fail ----

\* the counts of ctr under the keys ks, added up
RECURSIVE SumOver(_, _)
SumOver(ctr, ks) ==
    IF ks = {} THEN 0
    ELSE LET k == CHOOSE x \in ks : TRUE
         IN  Count(ctr, k) + SumOver(ctr, ks \ {k})

\* the sum of the counts of a map
MapSum(ctr) == SumOver(ctr, Keys(ctr))

\* C17: the returned total_fail is the sum of the user counts when the users
\* map is non-empty, and otherwise the sum of the address counts (0 when both
\* maps are empty).
C17_TotalFailFallback ==
    pc = "done" =>
        /\ Keys(stats.users) # {} => stats.total_fail = MapSum(stats.users)
        /\ Keys(stats.users) = {} => stats.total_fail = MapSum(stats.ips)
        /\ (Keys(stats.users) = {} /\ Keys(stats.ips) = {}) => stats.total_fail = 0

\* a finished run with two failure events, no user and one address
C17_Witness ==
    /\ pc = "done"
    /\ lines = <<Line(TsValid, <<T_status_FAIL>>), Line(TsValid, <<T_status_FAIL, T_ip_y>>)>>
    /\ stats.counted = 2
    /\ Keys(stats.users) = {} /\ Keys(stats.ips) = {<<"y">>}
    /\ stats.total_fail = 1

\* ---- C18: a log of well-formed FAIL and SUCCESS lines ----

\* well-formed lines with status FAIL, one non-empty user and one non-empty ip
WellFormedFail ==
    {Line(TsValid, <<T_status_FAIL, T_user_a, T_ip_x>>),
     Line(TsValid, <<T_status_FAIL, T_user_b, T_ip_x>>),
     StrLine(SampleFail)}

\* well-formed lines with status SUCCESS, one non-empty user and one non-empty ip
WellFormedSuccess == {Line(TsValid, <<T_status_SUCCESS, T_user_b, T_ip_y>>)}

\* the number of FAIL lines in the log
NumFail == Cardinality({n \in DOMAIN lines : lines[n] \in WellFormedFail})

\* C18: for a log of n well-formed FAIL lines and m well-formed SUCCESS
\* lines in any order, each with exactly one non-empty user and ip, the
\* result has counted = n, seen = n + m, skipped = 0, and the users map and
\* the ips map each sum to total_fail = n.
C18_FailAndSuccessLines ==
    (pc = "done" /\ \A n \in DOMAIN lines : lines[n] \in WellFormedFail \cup WellFormedSuccess)
        => /\ stats.counted = NumFail
           /\ stats.seen = Len(lines)
           /\ stats.skipped = 0
           /\ MapSum(stats.users) = NumFail
           /\ MapSum(stats.ips) = NumFail
           /\ stats.total_fail = NumFail

\* a finished run over a SUCCESS line followed by the FAIL line of the sample
C18_Witness ==
    /\ pc = "done"
    /\ lines = <<Line(TsValid, <<T_status_SUCCESS, T_user_b, T_ip_y>>), StrLine(SampleFail)>>
    /\ stats.counted = 1 /\ stats.seen = 2 /\ stats.total_fail = 1

\* ---- C20: a line of well-formed bareword tokens ----

\* the position of the first "=" of tok
EqAt(tok) ==
    CHOOSE p \in 0..(Len(tok) - 1) :
        tok[p + 1] = "=" /\ \A q \in 0..(p - 1) : tok[q + 1] # "="

\* the key and the value of tok as written
KeyText(tok) == Slice(tok, 0, EqAt(tok))
ValueText(tok) == Slice(tok, EqAt(tok) + 1, Len(tok))

\* tok is key=value with a key of the grammar and a non-empty unquoted value
\* without whitespace
Bareword(tok) ==
    /\ \E p \in 1..Len(tok) : tok[p] = "="
    /\ KeyText(tok) # <<>>
    /\ IsKeyStart(KeyText(tok)[1])
    /\ \A p \in DOMAIN KeyText(tok) : IsKeyChar(KeyText(tok)[p])
    /\ ValueText(tok) # <<>>
    /\ ValueText(tok)[1] \notin {"\"", "'"}
    /\ \A p \in DOMAIN ValueText(tok) : ~isspace(ValueText(tok)[p])

\* the key of tok as the options store it
StoredKey(o, tok) == IF o.normalize_keys THEN lower(KeyText(tok)) ELSE KeyText(tok)

\* toks are bareword tokens whose stored keys are pairwise distinct
DistinctBarewords(o, toks) ==
    /\ \A j \in DOMAIN toks : Bareword(toks[j])
    /\ \A i, j \in DOMAIN toks : i # j => StoredKey(o, toks[i]) # StoredKey(o, toks[j])

\* the fields of line 163 of the sample
SampleFailFields ==
    Put(Put(Put(Put(Put(Put(EmptyDict,
        K_timestamp, PyStr(TsValid)),
        <<"e","v","e","n","t">>, PyStr(<<"L","O","G","I","N">>)),
        K_status, PyStr(S_FAIL)),
        K_user, PyStr(<<"a","d","m","i","n">>)),
        K_ip, PyStr(<<"1","9","8",".","5","1",".","1","0","0",".","4","5">>)),
        <<"m","e","t","h","o","d">>, PyStr(<<"S","S","H">>))

\* C20: a line made of a valid 19-character timestamp followed by one or more
\* well-formed bareword key=value tokens with distinct keys, separated by
\* single spaces, parses to a record whose timestamp is the 19-character
\* prefix and whose fields are exactly those keys mapped to their values
\* (keys as the options store them); so does line 163 of the sample.
C20_BarewordLineParses ==
    /\ (frame.ppc = "return" /\ frame.line = StrLine(SampleFail))
           => frame.ret = RetDict(SampleFailFields)
    /\ \A toks \in TokenSeqs :
           (/\ frame.ppc = "return"
            /\ toks # <<>>
            /\ frame.line = Line(TsValid, toks)
            /\ DistinctBarewords(frame.o, toks))
               => /\ frame.ret.t = "dict"
                  /\ DOMAIN frame.ret.d =
                         {K_timestamp} \cup {StoredKey(frame.o, toks[j]) : j \in DOMAIN toks}
                  /\ frame.ret.d[K_timestamp] = PyStr(TsValid)
                  /\ \A j \in DOMAIN toks :
                         frame.ret.d[StoredKey(frame.o, toks[j])] = PyStr(ValueText(toks[j]))

\* ---- C21: the most-frequent view ----

\* the values under field k of the failure events of the run, in the order the
\* loop meets them
RECURSIVE ValuesInRunOrder(_, _)
ValuesInRunOrder(ls, k) ==
    IF ls = <<>> THEN <<>>
    ELSE IF Parsed(Head(ls)).t = "dict" /\ HasFailStatus(Head(ls))
         THEN FieldValues(Head(ls), k) \o ValuesInRunOrder(Tail(ls), k)
         ELSE ValuesInRunOrder(Tail(ls), k)

\* where x is first met among vals
FirstSeen(vals, x) == CHOOSE n \in DOMAIN vals : vals[n] = x /\ \A m \in 1..(n - 1) : vals[m] # x

\* view lists the entries of map by count descending, entries of equal count
\* in the order in which their keys were first met among vals
IsMostFrequentView(view, map, vals) ==
    /\ Len(view) = Len(map)
    /\ {view[n] : n \in DOMAIN view} = {map[n] : n \in DOMAIN map}
    /\ \A i, j \in DOMAIN view :
          i < j => /\ view[i].count >= view[j].count
                   /\ view[i].count = view[j].count
                          => FirstSeen(vals, view[i].key) < FirstSeen(vals, view[j].key)

\* C21: the most-frequent view of a frequency map lists its entries by count
\* in descending order, and entries with equal counts appear in the order in
\* which their keys were first inserted into the map during the run.
C21_MostCommonOrder ==
    pc = "printed" =>
        /\ IsMostFrequentView(top_users, stats.users, ValuesInRunOrder(lines, K_user))
        /\ IsMostFrequentView(top_ips, stats.ips, ValuesInRunOrder(lines, K_ip))

\* the views of a run whose second user outnumbers the first and whose two
\* addresses tie
C21_Witness ==
    /\ pc = "printed"
    /\ lines = <<Line(TsValid, <<T_status_FAIL, T_user_b, T_ip_x>>),
                 Line(TsValid, <<T_status_FAIL, T_user_a, T_user_a, T_ip_y>>)>>
    /\ top_users = <<[key |-> <<"a">>, count |-> 2], [key |-> <<"b">>, count |-> 1]>>
    /\ top_ips = <<[key |-> <<"x">>, count |-> 1], [key |-> <<"y">>, count |-> 1]>>

\* ---- C22: escaped quotes in a double-quoted value ----

\* the tokens of the inputs whose double-quoted value holds an escaped quote
EscapedQuoteTokens == {T_dq, T_dq2}

\* x with each backslash-quote pair replaced by a quote
RECURSIVE Unescaped(_)
Unescaped(x) ==
    IF x = <<>> THEN <<>>
    ELSE IF Len(x) >= 2 /\ x[1] = "\\" /\ x[2] = "\""
         THEN <<"\"">> \o Unescaped(SubSeq(x, 3, Len(x)))
         ELSE <<x[1]>> \o Unescaped(Tail(x))

\* the value of the token key="..." : the text between the quote after "=" and
\* the last character, unescaped
QuotedValue(tok) == Unescaped(SubSeq(tok, EqAt(tok) + 3, Len(tok) - 1))

\* the token sequences with T_dq2, which the generated ones do not hold
QuoteExtra == {<<T_dq2>>, <<T_9x_1, T_dq2, T_dq, T_user_a>>}

\* t is how x starts
StartsWith(x, t) == Len(t) <= Len(x) /\ SubSeq(x, 1, Len(t)) = t

\* the sequences of one to n of the generated tokens that, joined by sep, are text
RECURSIVE JoinedFrom(_, _, _)
JoinedFrom(text, sep, n) ==
    IF n = 0 THEN {}
    ELSE UNION {IF Len(t) = Len(text) THEN {<<t>>}
                ELSE IF text[Len(t) + 1] = sep
                THEN {<<t>> \o r :
                         r \in JoinedFrom(SubSeq(text, Len(t) + 2, Len(text)), sep, n - 1)}
                ELSE {} :
                t \in {u \in Tokens : StartsWith(text, u)}}

\* the token sequences toks, generated or in extra, for which line is region,
\* a space, and toks joined by sep
TokensOfLine(line, region, sep, extra) ==
    IF line.t = "str" /\ StartsWith(line.s, region \o <<" ">>)
    THEN LET text == SubSeq(line.s, Len(region) + 2, Len(line.s))
         IN  (IF text = <<>> THEN {<<>>} ELSE JoinedFrom(text, sep, MaxTokens))
                 \cup {toks \in extra : Join(toks, sep) = text}
    ELSE {}

\* C22: a double-quoted value that contains an escaped quote is taken as one
\* value up to the closing quote, spaces included, and decodes with each
\* escaped quote replaced by a quote character and the surrounding quotes
\* removed.  (Stated for the lines made of an accepted region and tokens
\* joined by single spaces.)
C22_EscapedQuoteDecodes ==
    \A region \in {TsValid, TsBlank} :
    \A toks \in TokensOfLine(frame.line, region, " ", QuoteExtra) :
        ReturnsFrom(region, toks) =>
            \A j \in DOMAIN toks :
                toks[j] \in EscapedQuoteTokens =>
                    LET key == KeyText(toks[j])
                        vals == as_list(Get(frame.ret.d, key))
                    IN  /\ frame.ret.t = "dict"
                        /\ \E n \in DOMAIN vals : vals[n] = QuotedValue(toks[j])
                        /\ \A n \in DOMAIN vals :
                               \E i \in DOMAIN toks :
                                   /\ toks[i] \in EscapedQuoteTokens
                                   /\ vals[n] = QuotedValue(toks[i])

\* a line with a malformed token, two quoted values with escaped quotes and a
\* bareword token has returned its record
C22_Witness ==
    /\ frame.ppc = "return"
    /\ frame.line = Line(TsValid, <<T_9x_1, T_dq2, T_dq, T_user_a>>)
    /\ frame.ret.t = "dict"
    /\ DOMAIN frame.ret.d = {K_timestamp, <<"q">>, <<"m">>, K_user}
    /\ frame.ret.d[<<"q">>] = PyStr(<<"\"", "x", " ", "y", "\"">>)
    /\ frame.ret.d[<<"m">>] = PyStr(<<"a", " ", "\"", "b">>)

\* ---- C23: counted lines and the maps ----

\* the step raised the count of some key of the map
Raised(before, after) == \E k \in Keys(after) : Count(after, k) > Count(before, k)

\* the line has a non-empty value under field k
HasValue(line, k) == \E n \in DOMAIN FieldValues(line, k) : FieldValues(line, k)[n] # <<>>

\* C23 as claimed: whenever counted is incremented for a line, that line
\* increments at least one entry of the users map or of the ips map.
C23_CountedContributes ==
    [][(pc = "for" /\ counted' = counted + 1) =>
          Raised(users_ctr, users_ctr') \/ Raised(ips_ctr, ips_ctr')]_vars

\* C23, amended: counted is incremented for exactly the failure events; such
\* a line increments an entry of the users map or of the ips map if and only
\* if it has a non-empty user or ip value, and a failure event with neither is
\* counted with both maps unchanged.
C23_CountedIsFailureEvent ==
    [][(pc = "for" /\ idx < Len(lines)) =>
          LET line == lines[idx + 1]
              event == Parsed(line).t = "dict" /\ HasFailStatus(line)
          IN  /\ (counted' = counted + 1) <=> event
              /\ event =>
                    /\ (Raised(users_ctr, users_ctr') \/ Raised(ips_ctr, ips_ctr'))
                           <=> (HasValue(line, K_user) \/ HasValue(line, K_ip))
                    /\ ~(HasValue(line, K_user) \/ HasValue(line, K_ip))
                           => users_ctr' = users_ctr /\ ips_ctr' = ips_ctr]_vars

\* a run that counted a FAIL line without user or ip and then one with both
C23_Witness ==
    /\ pc = "done"
    /\ lines = <<Line(TsValid, <<T_status_FAIL>>),
                 Line(TsValid, <<T_status_FAIL, T_user_a, T_ip_x>>)>>
    /\ stats.counted = 2
    /\ Count(stats.users, <<"a">>) = 1 /\ Count(stats.ips, <<"x">>) = 1

\* ---- C24: blank and unmatched timestamp regions ----

\* the returning call parsed region followed by toks joined by spaces
ReturnsFromLine(region, toks) == frame.ppc = "return" /\ frame.line = Line(region, toks)

\* the lines of the inputs whose region is non-blank and not a timestamp
UnmatchedLines ==
    {Line(DateOnly, <<T_event, T_status_FAIL, T_user_a, T_ip_x>>),
     Line(TsBad, <<T_user_a>>),
     Line(TsAlmostBlank, <<T_status_FAIL, T_user_a>>)}

\* C24: for a line whose first 19 characters are all whitespace and which
\* carries at least one well-formed key=value token, parse_log_line returns a
\* record with timestamp none and those fields under
\* allow_blank_timestamp=true, and None under allow_blank_timestamp=false; a
\* non-blank 19-character region that does not match the pattern is rejected
\* under both settings.  (Stated for tokens joined by single spaces.)
C24_BlankTimestampOption ==
    /\ (frame.ppc = "return" /\ frame.line \in UnmatchedLines) => frame.ret = RetNone
    /\ \A toks \in TokenSeqs :
           (ReturnsFromLine(TsBlank, toks) /\ \E j \in DOMAIN toks : WellFormed(toks[j])) =>
               IF frame.o.allow_blank_timestamp
               THEN /\ frame.ret.t = "dict"
                    /\ K_timestamp \in DOMAIN frame.ret.d
                    /\ frame.ret.d[K_timestamp] = PyNone
                    /\ \A j \in DOMAIN toks :
                           WellFormed(toks[j]) =>
                               LET k == KeyOf(frame.o, toks[j])
                               IN  /\ k \in DOMAIN frame.ret.d
                                   /\ frame.ret.d[k] =
                                          PolicyEntry(frame.o, ValuesOf(frame.o, toks, k))
               ELSE frame.ret = RetNone

\* ---- C25: runs do not share state ----

\* the locals after a run over ls that starts from empty maps and zero totals
RECURSIVE Alone(_)
Alone(ls) ==
    IF ls = <<>>
    THEN [users_ctr |-> <<>>, ips_ctr |-> <<>>,
          seen |-> 0, counted |-> 0, skipped |-> 0, aborted |-> FALSE]
    ELSE ForBody(Alone(SubSeq(ls, 1, Len(ls) - 1)), ls[Len(ls)])

\* C25: each run of count_failed_logins starts from empty maps and zero
\* totals, and nothing persists between runs: whatever runs came before, the
\* result of a run is the result of that run executed alone on its lines.
C25_RunsAreIsolated ==
    /\ (pc = "for" /\ idx = 0) =>
           /\ users_ctr = <<>> /\ ips_ctr = <<>>
           /\ seen = 0 /\ counted = 0 /\ skipped = 0
    /\ pc \in {"done", "printed"} => stats = Result(Alone(lines))

\* a second run has returned the counts of its one FAIL line
C25_Witness ==
    /\ pc = "done"
    /\ runs = 2
    /\ lines = <<Line(TsValid, <<T_status_FAIL, T_user_a, T_ip_x>>)>>
    /\ stats.counted = 1 /\ stats.seen = 1
    /\ Count(stats.users, <<"a">>) = 1 /\ Count(stats.ips, <<"x">>) = 1

\* ---- C26: normalize_keys ----

\* two keys of toks differ in letter case only
CaseMix(toks) ==
    \E i, j \in DOMAIN toks :
        /\ WellFormed(toks[i]) /\ WellFormed(toks[j])
        /\ KeyText(toks[i]) # KeyText(toks[j])
        /\ lower(KeyText(toks[i])) = lower(KeyText(toks[j]))

\* the line STATUS=FAIL USER=a IP=x and the same line in lowercase
UpperCaseLine == Line(TsValid, <<T_STATUS_FAIL, T_USER_a, T_IP_x>>)
LowerCaseLine == Line(TsValid, <<T_status_FAIL, T_user_a, T_ip_x>>)

\* C26: with normalize_keys=true every key is lowercased before insertion, so
\* tokens whose keys differ only in letter case are merged under one lowercase
\* key according to the duplicate policy, and count_failed_logins counts the
\* line STATUS=FAIL USER=a IP=x exactly like status=FAIL user=a ip=x; with
\* normalize_keys=false the keys are kept as written and stay distinct.
\* (Stated for a valid timestamp and tokens joined by single spaces.)
C26_NormalizeKeys ==
    /\ (frame.ppc = "return" /\ frame.ret.t = "dict" /\ frame.o.normalize_keys) =>
           \A k \in DOMAIN frame.ret.d : lower(k) = k
    /\ \A toks \in TokenSeqs \cup {<<T_Timestamp_y, T_timestamp_z>>,
                                  <<T_STATUS_FAIL, T_USER_a, T_status_OK>>} :
           (ReturnsFromLine(TsValid, toks) /\ CaseMix(toks)) =>
               /\ frame.ret.t = "dict"
               /\ \A j \in DOMAIN toks :
                      WellFormed(toks[j]) =>
                          LET k == KeyOf(frame.o, toks[j])
                          IN  /\ k = IF frame.o.normalize_keys THEN lower(KeyText(toks[j]))
                                     ELSE KeyText(toks[j])
                              /\ k \in DOMAIN frame.ret.d
                              /\ frame.ret.d[k] = PolicyEntry(frame.o, ValuesOf(frame.o, toks, k))
    /\ (pc = "done" /\ lines = <<UpperCaseLine>>) =>
           /\ stats = Result(Alone(<<LowerCaseLine>>))
           /\ stats.counted = 1

\* ---- C27: anchored matching ----

\* the token sequences with malformed tokens that the generated ones do not hold
AnchorExtra == {<<T_user_a, T_eq_k_v, T_9x_1, T_ip_x>>, <<T_eq_k_v>>}

\* tok does not start with a key, "=" and a value
Malformed(tok) ==
    \/ tok[1] \notin Letters \cup {"_"}
    \/ \A p \in DOMAIN tok : tok[p] # "="

\* toks without its malformed tokens
RECURSIVE WithoutMalformed(_)
WithoutMalformed(toks) ==
    IF toks = <<>> THEN <<>>
    ELSE IF Malformed(Head(toks)) THEN WithoutMalformed(Tail(toks))
    ELSE <<Head(toks)>> \o WithoutMalformed(Tail(toks))

\* the keys under which the well-formed tokens of toks are stored
StoredKeys(o, toks) == {KeyOf(o, toks[j]) : j \in {i \in DOMAIN toks : ~Malformed(toks[i])}}

\* C27: token matching is anchored at the scan position: a
\* whitespace-delimited token that does not start with a valid key, "=" and a
\* value is skipped as a whole, and no field is ever produced from a suffix of
\* it.  For tokens separated by a space or a tab the record has no key but
\* timestamp and those of the well-formed tokens; for tokens joined by single
\* spaces the result is that of the line without the malformed tokens.
C27_AnchoredMatching ==
    frame.ppc = "return" =>
        \A region \in {TsValid, TsBlank}, sep \in Seps :
            \A toks \in TokensOfLine(frame.line, region, sep, AnchorExtra) :
                /\ frame.ret.t = "dict" =>
                       DOMAIN frame.ret.d \subseteq {K_timestamp} \cup StoredKeys(frame.o, toks)
                /\ sep = " " =>
                       frame.ret = parse_log_line(Line(region, WithoutMalformed(toks)),
                                                  frame.o).ret

\* a line with two malformed tokens between two well-formed ones has returned
\* the fields of the well-formed ones only
C27_Witness ==
    /\ frame.ppc = "return"
    /\ frame.line = Line(TsValid, <<T_user_a, T_eq_k_v, T_9x_1, T_ip_x>>)
    /\ frame.ret.t = "dict"
    /\ DOMAIN frame.ret.d = {K_timestamp, K_user, K_ip}

\* ---- C28: no empty keys, no zero counts ----

\* no entry of the map has the empty string as key or a count below 1
CleanMap(ctr) == \A n \in DOMAIN ctr : ctr[n].key # <<>> /\ ctr[n].count >= 1

\* C28: in every state of a run of count_failed_logins no frequency map
\* contains the empty string as a key and every entry present has a count of
\* at least 1; a failure event whose user (or ip) value is empty adds no entry
\* for it but is still counted.
C28_NoEmptyKeys ==
    [][/\ CleanMap(users_ctr') /\ CleanMap(ips_ctr')
       /\ CleanMap(stats'.users) /\ CleanMap(stats'.ips)
       /\ (AtParsedLine /\ HasFailStatus(lines[idx + 1])) =>
              /\ counted' = counted + 1
              /\ ~HasValue(lines[idx + 1], K_user) => users_ctr' = users_ctr
              /\ ~HasValue(lines[idx + 1], K_ip) => ips_ctr' = ips_ctr]_vars

\* a run that counted a failure event with an empty user and an empty ip, and
\* one with an empty user and an address
C28_Witness ==
    /\ pc = "done"
    /\ lines = <<Line(TsValid, <<T_status_FAIL, T_user_empty, T_ip_empty>>),
                 Line(TsValid, <<T_status_FAIL, T_user_empty, T_ip_x>>)>>
    /\ stats.counted = 2
    /\ stats.users = <<>>
    /\ stats.ips = <<[key |-> <<"x">>, count |-> 1]>>

\* C29: the tokenizing loop of parse_log_line terminates: whenever a match is
\* attempted the position is not on a whitespace character; the position
\* never passes the length; the iteration that starts at a match attempt
\* ends with the position strictly greater or with the loop left; and an
\* invocation that is in the loop leaves it.
C29_LoopTerminates ==
    /\ [](AtMatch => ~isspace(frame.rest[frame.pos + 1]))
    /\ [](frame.ppc = "while" => frame.pos <= frame.length)
    /\ [](AtMatch => \/ WhileBody(frame).ppc # "while"
                     \/ WhileBody(frame).pos > frame.pos)
    /\ [](frame.ppc = "while" => <>(frame.ppc # "while"))

\* the loop has ended at the end of the text after an iteration that matched
\* a token behind two malformed ones, each followed by a space
C29_Witness ==
    /\ frame.ppc = "has_kv"
    /\ frame.line = Line(TsValid, <<T_user_a, T_eq_k_v, T_9x_1, T_ip_x>>)
    /\ frame.pos = frame.length
    /\ frame.warns = <<"bad_token", "bad_token">>
    /\ K_ip \in DOMAIN frame.fields

\* the orders in which the lines of ls can be handed over
Reorderings(ls) ==
    {[n \in DOMAIN ls |-> ls[p[n]]] :
        p \in {q \in [DOMAIN ls -> DOMAIN ls] : \A i, j \in DOMAIN ls : i # j => q[i] # q[j]}}

\* two maps read as key-to-count mappings
SameMapping(c1, c2) ==
    /\ Keys(c1) = Keys(c2)
    /\ \A k \in Keys(c1) : Count(c1, k) = Count(c2, k)

\* C30: the counters a run returns do not depend on the order of its lines:
\* the run over any permutation of the lines returns too, with the same users
\* and ips mappings and the same total_fail, seen, counted and skipped.
C30_OrderIndependent ==
    pc = "done" =>
        \A ls \in Reorderings(lines) :
            LET t == Tally(ls)
                r == Result(t)
            IN  /\ ~t.aborted
                /\ SameMapping(r.users, stats.users)
                /\ SameMapping(r.ips, stats.ips)
                /\ r.total_fail = stats.total_fail
                /\ r.seen = stats.seen
                /\ r.counted = stats.counted
                /\ r.skipped = stats.skipped

\* a run over two failure events with different users has returned; the
\* other order inserts the users the other way round
C30_Witness ==
    /\ pc = "done"
    /\ lines = <<Line(TsValid, <<T_status_FAIL, T_user_a, T_ip_x>>),
                 Line(TsValid, <<T_status_FAIL, T_user_b, T_ip_x>>)>>
    /\ stats.users = <<[key |-> <<"a">>, count |-> 1], [key |-> <<"b">>, count |-> 1]>>
    /\ count_failed_logins(<<lines[2], lines[1]>>).users
           = <<[key |-> <<"b">>, count |-> 1], [key |-> <<"a">>, count |-> 1]>>

====
